---- MODULE Spec2Model ----
(***************************************************************************)
(* Model of bimmer_connected/vehicle/remote_services.py: the remote        *)
(* service engine (submit, poll until a final answer, post-action effect)  *)
(* of one RemoteServices object.  One behaviour is one invocation of one   *)
(* public trigger_* coroutine; every await of the coroutine is a           *)
(* suspension point, so every action is the code between two awaits.       *)
(* Time is the value of datetime.datetime.now(), in seconds since the      *)
(* invocation; it advances in asyncio.sleep and while a request is in      *)
(* flight.                                                                 *)
(***************************************************************************)
EXTENDS Integers, FiniteSets, Sequences, TLC

\* ------------------------------------------------------------------ bounds
\* longest time (seconds) one status query stays in flight
MaxLatency == 3
\* charging-settings arguments range over -MaxArg..MaxArg in SpecValidate
MaxArg == 105
\* ... and the ac_limit argument over 0..MaxAcLimit
MaxAcLimit == 17
\* invocations running concurrently in SpecConcurrent
NChains == 2

\* ------------------------------------------------------- program constants
\* time in seconds between polling updates on the status of a remote service
_POLLING_CYCLE == 3
\* maximum number of seconds to wait for the server to return a positive answer
_POLLING_TIMEOUT == 240

\* class ExecutionState: the values of the members
ExecutionState_members ==
    {"INITIATED", "PENDING", "DELIVERED", "EXECUTED", "ERROR", "UNKNOWN"}

\* class Services without VEHICLE_FINDER: the services the trigger_*
\* coroutines hand to trigger_remote_service; climate-now is split by its
\* params {"action": "START" | "STOP"}
GenericServices ==
    {"light-flash", "door-lock", "door-unlock", "horn-blow", "CHARGE_NOW",
     "climate-now:START", "climate-now:STOP"}

\* ------------------------------------------------- server responses (input)
\* The json of a status response: the eventStatus key may be missing, and
\* its value may be empty, a member value, or a value no member has.
RawStatusValues == ExecutionState_members \cup {"", "CANCELLED"}

StatusResponses ==
    {[has_eventStatus |-> FALSE, eventStatus |-> ""]} \cup
    {[has_eventStatus |-> TRUE, eventStatus |-> v] : v \in RawStatusValues}

\* StrEnum._missing_ (bimmer_connected/models.py, not among the sources):
\* a value no member has is kept as a state of its own
StrEnum_missing(value) == value

\* ExecutionState(value): the member whose value is `value`
ExecutionState(value) ==
    IF value \in ExecutionState_members THEN value ELSE StrEnum_missing(value)

\* mutant of RemoteServiceStatus: no default, the state is built from the
\* eventStatus as it came
RemoteServiceStatus_no_default(response) ==
    [state   |-> ExecutionState(IF response.has_eventStatus
                                THEN response.eventStatus ELSE ""),
     details |-> response]

\* RemoteServiceStatus.__init__
RemoteServiceStatus(response) ==
    LET status == IF response.has_eventStatus THEN response.eventStatus ELSE ""
    IN  [state   |-> ExecutionState(IF status # "" THEN status ELSE "UNKNOWN"),
         details |-> response]

\* no RemoteServiceStatus object yet (the local `status` is unbound)
NoStatus == [state |-> "<unbound>", details |-> [has_eventStatus |-> FALSE, eventStatus |-> ""]]

\* ------------------------------------------------------------------- state
VARIABLES
    pc,                \* where the coroutine is suspended
    op,                \* the operation invoked
    now,               \* datetime.datetime.now()
    fail_after,        \* _block_until_done: fail_after
    iter_start,        \* time of the last successful loop test
    event_id,          \* the eventId of the submit response ("None": absent)
    status,            \* _block_until_done: status
    result,            \* the RemoteServiceStatus returned to the caller
    outcome,           \* how the invocation ended
    err_stage,         \* the request that raised a transport error
    location,          \* vehicle.vehicle_location's remote service position
    observer_position, \* account.config.observer_position is set
    target_soc,        \* argument target_soc ({}: None)
    ac_limit,          \* argument ac_limit ({}: None)
    vehicle,           \* the capability flags and charging profile read
    n_submit,          \* POSTs to the remote-service / charging-settings url
    n_status,          \* POSTs to the event status url
    n_poll_sleep,      \* asyncio.sleep(_POLLING_CYCLE) begun
    n_refresh,         \* account.get_vehicles() calls
    n_position,        \* POSTs to the position url
    n_poi,             \* POSTs to the point-of-interest url
    all_pending,       \* every status response so far had state PENDING
    error_seen,        \* a status response had state ERROR
    n_status_at_error, \* n_status when that response arrived
    t_last_status,     \* time the last status response arrived
    t_refresh,         \* time get_vehicles() was called
    last_response,     \* the json of the last status response
    chains,            \* SpecConcurrent: the state of every invocation
    clock              \* SpecConcurrent: datetime.datetime.now()

vars == <<pc, op, now, fail_after, iter_start, event_id, status, result, outcome,
          err_stage, location, observer_position, target_soc, ac_limit, vehicle,
          n_submit, n_status, n_poll_sleep, n_refresh, n_position, n_poi,
          all_pending, error_seen, n_status_at_error, t_last_status, t_refresh,
          last_response, chains, clock>>

\* ---------------------------------------------------------------- helpers
\* the time a status query can stay in flight
Latencies == 0..MaxLatency

\* mutant of LoopCondition: the comparison is the wrong way round
LoopCondition_inverted(t, deadline) == t > deadline

\* mutant of LoopCondition: the deadline itself still begins an iteration
LoopCondition_inclusive(t, deadline) == t <= deadline

\* line 163: while datetime.datetime.now() < fail_after
LoopCondition(t, deadline) == t < deadline

\* mutant of IsError: ERROR is not told apart from the other states
IsError_never(state) == FALSE

\* line 167: status.state == ExecutionState.ERROR
IsError(state) == state = "ERROR"

\* mutant of StillWorking: no state ends the loop, only ERROR and the
\* deadline do
StillWorking_always(state) == TRUE

\* mutant of StillWorking: EXECUTED is listed among the states to wait on
StillWorking_with_executed(state) ==
    state \in {"UNKNOWN", "PENDING", "DELIVERED", "EXECUTED"}

\* mutant of StillWorking: final by inclusion, only EXECUTED and ERROR end
\* the loop
StillWorking_unless_final(state) == state \notin {"EXECUTED", "ERROR"}

\* line 169: the states for which the loop goes on
StillWorking(state) == state \in {"UNKNOWN", "PENDING", "DELIVERED"}

\* mutant of TriggersStateUpdate: every service is followed by the update
TriggersStateUpdate_every_service(o) ==
    o \in GenericServices \cup {"charging-settings", "send-poi"}

\* mutant of TriggersStateUpdate: charge-now and climate behave as their
\* docstrings say ("A state update is NOT triggered after this")
TriggersStateUpdate_as_documented(o) ==
    o \in {"door-lock", "door-unlock", "charging-settings"}

\* the trigger_* coroutines that await self._trigger_state_update()
TriggersStateUpdate(o) ==
    o \in {"door-lock", "door-unlock", "CHARGE_NOW", "climate-now:START",
           "climate-now:STOP", "charging-settings"}

\* line 186: asyncio.sleep(_POLLING_CYCLE * 2)
StateUpdateDelay == _POLLING_CYCLE * 2

\* mutant of Propagate: the state update sits in a finally clause
Propagate_through_finally(o) ==
    IF TriggersStateUpdate(o) THEN "state_update_sleep" ELSE "done"

\* an exception raised inside a trigger_* coroutine propagates to the caller:
\* no trigger_* has a try/except/finally, so nothing after the raise runs
Propagate(o) == "done"

\* mutant of SendPoiStatus: the status is built from the json of the POST,
\* which has no eventStatus
SendPoiStatus_from_response ==
    RemoteServiceStatus([has_eventStatus |-> FALSE, eventStatus |-> ""])

\* line 256: RemoteServiceStatus({"eventStatus": "EXECUTED"})
SendPoiStatus == RemoteServiceStatus([has_eventStatus |-> TRUE, eventStatus |-> "EXECUTED"])

\* mutant of PositionNeedsNetwork: the test of observer_position is missing
PositionNeedsNetwork_always(observer) == TRUE

\* line 272: _get_event_position posts only with an observer position
PositionNeedsNetwork(observer) == observer

NoPayload == [kind |-> "none", title |-> "", description |-> ""]

\* lines 273-278: the payload returned without an observer position
UnknownPosition ==
    [kind |-> "errorDetails", title |-> "Unknown position",
     description |-> "Set observer position to retrieve vehicle coordinates!"]

\* what the position url can answer: a position or the server's own error
PositionPayloads ==
    {[kind |-> "positionData", title |-> "", description |-> ""],
     [kind |-> "errorDetails", title |-> "server", description |-> "server"]}

\* -------------------------------------------- charging settings validation
\* an Optional[int] argument is {} (None) or {v}; the test of x is false for both
\* None and 0
Truthy(x) == x # {} /\ x # {0}

ValueOf(x) == CHOOSE v \in x : TRUE

\* isinstance(x, int): the arguments drawn are ints
IsInt(v) == v \in Int

\* the vehicle as trigger_charging_settings_update reads it
Vehicles ==
    [is_charging_target_soc_enabled : BOOLEAN,
     is_charging_ac_limit_enabled   : BOOLEAN,
     has_charging_profile           : {TRUE},
     ac_available_limits            : {{}, {6, 16}}]
    \cup
    [is_charging_target_soc_enabled : BOOLEAN,
     is_charging_ac_limit_enabled   : BOOLEAN,
     has_charging_profile           : {FALSE},
     ac_available_limits            : {{}}]

NoVehicleRead ==
    [is_charging_target_soc_enabled |-> FALSE,
     is_charging_ac_limit_enabled   |-> FALSE,
     has_charging_profile           |-> FALSE,
     ac_available_limits            |-> {}]

\* lines 198-212: the ValueError raised, "" when none is
ValidationError(soc, ac, veh) ==
    IF Truthy(soc) /\ ~veh.is_charging_target_soc_enabled
    THEN "Vehicle does not support setting target SoC."
    ELSE IF Truthy(soc) /\ (\/ ~IsInt(ValueOf(soc))
                            \/ ValueOf(soc) < 20
                            \/ ValueOf(soc) > 100
                            \/ ValueOf(soc) % 5 # 0)
    THEN "Target SoC must be an integer between 20 and 100 that is a multiple of 5."
    ELSE IF Truthy(ac)
    THEN IF \/ ~veh.is_charging_ac_limit_enabled
            \/ ~veh.has_charging_profile
            \/ veh.ac_available_limits = {}
         THEN "Vehicle does not support setting AC Limit."
         ELSE IF ~IsInt(ValueOf(ac)) \/ ValueOf(ac) \notin veh.ac_available_limits
         THEN "AC Limit must be an integer and in charging_profile.ac_available_limits."
         ELSE ""
    ELSE ""

\* the arguments SpecValidate draws
SocArguments == {{}} \cup {{v} : v \in (0 - MaxArg)..MaxArg}
AcArguments == {{}} \cup {{v} : v \in 0..MaxAcLimit}

\* the calls of trigger_charging_settings_update Spec draws
FullVehicle ==
    [is_charging_target_soc_enabled |-> TRUE,
     is_charging_ac_limit_enabled   |-> TRUE,
     has_charging_profile           |-> TRUE,
     ac_available_limits            |-> {6, 16}]

ChargingCalls ==
    {<<{80}, {16}, FullVehicle>>, <<{57}, {}, FullVehicle>>,
     <<{}, {7}, FullVehicle>>, <<{80}, {}, NoVehicleRead>>}

\* ------------------------------------------------- concurrent invocations
ChainIds == 1..NChains

\* a trigger_* coroutine not yet called
IdleChain ==
    [pc          |-> "idle",      \* where the coroutine is suspended
     op          |-> "none",      \* the operation invoked
     fail_after  |-> 0,           \* _block_until_done: fail_after
     wake        |-> 0,           \* when the asyncio.sleep in progress ends, or 0
     outstanding |-> {},          \* the calls sent and not yet over
     calls       |-> <<>>,        \* the kinds of call made, in order
     outcome     |-> "none"]      \* how the invocation ended

\* -------------------------------------------------------------------- Init
Init ==
    /\ pc = "idle"
    /\ op = "none"
    /\ now = 0
    /\ fail_after = 0
    /\ iter_start = 0
    /\ event_id = "<unbound>"
    /\ status = NoStatus
    /\ result = NoStatus
    /\ outcome = "none"
    /\ err_stage = "none"
    /\ location = NoPayload
    /\ observer_position \in BOOLEAN
    /\ target_soc = {}
    /\ ac_limit = {}
    /\ vehicle = NoVehicleRead
    /\ n_submit = 0
    /\ n_status = 0
    /\ n_poll_sleep = 0
    /\ n_refresh = 0
    /\ n_position = 0
    /\ n_poi = 0
    /\ all_pending = TRUE
    /\ error_seen = FALSE
    /\ n_status_at_error = 0
    /\ t_last_status = 0
    /\ t_refresh = 0
    /\ last_response = NoStatus.details
    /\ chains = [c \in ChainIds |-> IdleChain]
    /\ clock = 0

\* ----------------------------------------------------------------- actions
history == <<all_pending, error_seen, n_status_at_error, t_last_status, t_refresh,
             last_response>>
counters == <<n_submit, n_status, n_poll_sleep, n_refresh, n_position, n_poi>>
arguments == <<target_soc, ac_limit, vehicle>>
concurrent == <<chains, clock>>

\* the invocation ends with an exception of the given kind
Raise(kind, stage) ==
    /\ pc' = Propagate(op)
    /\ outcome' = kind
    /\ err_stage' = stage

\* trigger_remote_light_flash .. trigger_remote_air_conditioning_stop and
\* trigger_remote_vehicle_finder up to their first await: the POST of
\* _start_remote_service is sent
TriggerRemoteService(o) ==
    /\ pc = "idle"
    /\ pc' = "submit"
    /\ op' = o
    /\ n_submit' = n_submit + 1
    /\ UNCHANGED <<now, fail_after, iter_start, event_id, status, result, outcome,
                   err_stage, location, observer_position, concurrent, arguments,
                   n_status, n_poll_sleep, n_refresh, n_position, n_poi, history>>

\* mutant of TriggerChargingSettingsUpdate: the POST is sent before the
\* arguments are validated
TriggerChargingSettingsUpdate_post_first(soc, ac, veh) ==
    /\ pc = "idle"
    /\ op' = "charging-settings"
    /\ target_soc' = soc
    /\ ac_limit' = ac
    /\ vehicle' = veh
    /\ n_submit' = n_submit + 1
    /\ IF ValidationError(soc, ac, veh) # ""
       THEN /\ pc' = "done"
            /\ outcome' = "ValueError"
            /\ err_stage' = "validation"
       ELSE /\ pc' = "submit"
            /\ UNCHANGED <<outcome, err_stage>>
    /\ UNCHANGED <<now, fail_after, iter_start, event_id, status, result, location,
                   observer_position, concurrent, n_status, n_poll_sleep, n_refresh,
                   n_position, n_poi, history>>

\* trigger_charging_settings_update up to its first await (lines 196-215)
TriggerChargingSettingsUpdate(soc, ac, veh) ==
    /\ pc = "idle"
    /\ op' = "charging-settings"
    /\ target_soc' = soc
    /\ ac_limit' = ac
    /\ vehicle' = veh
    /\ IF ValidationError(soc, ac, veh) # ""
       THEN /\ pc' = "done"
            /\ outcome' = "ValueError"
            /\ err_stage' = "validation"
            /\ UNCHANGED n_submit
       ELSE /\ pc' = "submit"
            /\ n_submit' = n_submit + 1
            /\ UNCHANGED <<outcome, err_stage>>
    /\ UNCHANGED <<now, fail_after, iter_start, event_id, status, result, location,
                   observer_position, concurrent, n_status, n_poll_sleep, n_refresh,
                   n_position, n_poi, history>>

\* trigger_send_poi up to its await (lines 237-243)
TriggerSendPoi ==
    /\ pc = "idle"
    /\ pc' = "poi_post"
    /\ op' = "send-poi"
    /\ n_poi' = n_poi + 1
    /\ UNCHANGED <<now, fail_after, iter_start, event_id, status, result, outcome,
                   err_stage, location, observer_position, concurrent, arguments,
                   n_submit, n_status, n_poll_sleep, n_refresh, n_position, history>>

\* lines 163-164 and 171-174: the loop test of _block_until_done at time t
\* with the last status st; it either begins the next sleep or raises. The
\* message of the TimeoutError reads status.state, unbound before the first
\* query
LoopTest(t, deadline, st) ==
    IF LoopCondition(t, deadline)
    THEN /\ pc' = "poll_sleep"
         /\ iter_start' = t
         /\ n_poll_sleep' = n_poll_sleep + 1
         /\ UNCHANGED <<outcome, err_stage>>
    ELSE /\ Raise(IF st = NoStatus THEN "UnboundLocalError" ELSE "TimeoutError", "poll")
         /\ UNCHANGED <<iter_start, n_poll_sleep>>

\* the submit POST answers (lines 154-155, 224): event_id is the eventId of
\* the json, None when the json has none; _block_until_done begins
\* (lines 162-164)
SubmitReturns(eid) ==
    /\ pc = "submit"
    /\ event_id' = eid
    /\ fail_after' = now + _POLLING_TIMEOUT
    /\ LoopTest(now, now + _POLLING_TIMEOUT, status)
    /\ UNCHANGED <<op, now, status, result, location, observer_position, concurrent, arguments,
                   n_submit, n_status, n_refresh, n_position, n_poi, history>>

\* client.post raises while the submit is in flight
SubmitFails ==
    /\ pc = "submit"
    /\ Raise("TransportError", "submit")
    /\ UNCHANGED <<op, now, fail_after, iter_start, event_id, status, result, location,
                   observer_position, concurrent, arguments, counters, history>>

\* asyncio.sleep(_POLLING_CYCLE) is over; the status POST is sent
\* (lines 164-165, 179-181)
PollSleepEnds ==
    /\ pc = "poll_sleep"
    /\ now' = now + _POLLING_CYCLE
    /\ pc' = "poll_query"
    /\ n_status' = n_status + 1
    /\ UNCHANGED <<op, fail_after, iter_start, event_id, status, result, outcome,
                   err_stage, location, observer_position, concurrent, arguments,
                   n_submit, n_poll_sleep, n_refresh, n_position, n_poi, history>>

\* control after _block_until_done returned st to the trigger_* coroutine
\* (lines 83-141, 226-227, 266-268)
BlockReturned(st) ==
    IF TriggersStateUpdate(op)
    THEN /\ pc' = "state_update_sleep"
         /\ UNCHANGED <<result, outcome, location, n_position>>
    ELSE IF op = "vehicle-finder"
    THEN IF PositionNeedsNetwork(observer_position)
         THEN /\ pc' = "position"
              /\ n_position' = n_position + 1
              /\ UNCHANGED <<result, outcome, location>>
         ELSE /\ pc' = "done"
              /\ location' = UnknownPosition
              /\ result' = st
              /\ outcome' = "returned"
              /\ UNCHANGED n_position
    ELSE /\ pc' = "done"
         /\ result' = st
         /\ outcome' = "returned"
         /\ UNCHANGED <<location, n_position>>

\* the status POST answers after lat seconds (lines 165-170, then 163)
StatusReturns(response, lat) ==
    /\ pc = "poll_query"
    /\ now' = now + lat
    /\ last_response' = response
    /\ status' = RemoteServiceStatus(response)
    /\ t_last_status' = now'
    /\ all_pending' = (all_pending /\ status'.state = "PENDING")
    /\ error_seen' = (error_seen \/ status'.state = "ERROR")
    /\ n_status_at_error' =
           IF ~error_seen /\ status'.state = "ERROR" THEN n_status ELSE n_status_at_error
    /\ IF IsError(status'.state)
       THEN /\ Raise("Exception", "poll")
            /\ UNCHANGED <<iter_start, n_poll_sleep, result, location, n_position>>
       ELSE IF ~StillWorking(status'.state)
       THEN /\ BlockReturned(status')
            /\ UNCHANGED <<iter_start, n_poll_sleep, err_stage>>
       ELSE /\ LoopTest(now', fail_after, status')
            /\ UNCHANGED <<result, location, n_position>>
    /\ UNCHANGED <<op, fail_after, event_id, observer_position, concurrent, arguments,
                   n_submit, n_status, n_refresh, n_poi, t_refresh>>

\* client.post raises while the status query is in flight
StatusFails ==
    /\ pc = "poll_query"
    /\ Raise("TransportError", "status")
    /\ UNCHANGED <<op, now, fail_after, iter_start, event_id, status, result, location,
                   observer_position, concurrent, arguments, counters, history>>

\* _trigger_state_update: asyncio.sleep(_POLLING_CYCLE * 2) is over and
\* account.get_vehicles() is called (lines 186-187)
StateUpdateSleepEnds ==
    /\ pc = "state_update_sleep"
    /\ now' = now + StateUpdateDelay
    /\ pc' = "get_vehicles"
    /\ n_refresh' = n_refresh + 1
    /\ t_refresh' = now'
    /\ UNCHANGED <<op, fail_after, iter_start, event_id, status, result, outcome,
                   err_stage, location, observer_position, concurrent, arguments,
                   n_submit, n_status, n_poll_sleep, n_position, n_poi,
                   all_pending, error_seen, n_status_at_error, t_last_status,
                   last_response>>

\* get_vehicles() is done; the trigger_* coroutine returns the status
GetVehiclesReturns ==
    /\ pc = "get_vehicles"
    /\ pc' = "done"
    /\ result' = status
    /\ outcome' = "returned"
    /\ UNCHANGED <<op, now, fail_after, iter_start, event_id, status, err_stage, location,
                   observer_position, concurrent, arguments, counters, history>>

GetVehiclesFails ==
    /\ pc = "get_vehicles"
    /\ Raise("TransportError", "get_vehicles")
    /\ UNCHANGED <<op, now, fail_after, iter_start, event_id, status, result, location,
                   observer_position, concurrent, arguments, counters, history>>

\* the position POST answers (lines 280-287, 267-268)
PositionReturns(payload) ==
    /\ pc = "position"
    /\ pc' = "done"
    /\ location' = payload
    /\ result' = status
    /\ outcome' = "returned"
    /\ UNCHANGED <<op, now, fail_after, iter_start, event_id, status, err_stage,
                   observer_position, concurrent, arguments, counters, history>>

PositionFails ==
    /\ pc = "position"
    /\ Raise("TransportError", "position")
    /\ UNCHANGED <<op, now, fail_after, iter_start, event_id, status, result, location,
                   observer_position, concurrent, arguments, counters, history>>

\* the point-of-interest POST answers (lines 243-256)
SendPoiReturns ==
    /\ pc = "poi_post"
    /\ pc' = "done"
    /\ result' = SendPoiStatus
    /\ outcome' = "returned"
    /\ UNCHANGED <<op, now, fail_after, iter_start, event_id, status, err_stage, location,
                   observer_position, concurrent, arguments, counters, history>>

SendPoiFails ==
    /\ pc = "poi_post"
    /\ Raise("TransportError", "poi")
    /\ UNCHANGED <<op, now, fail_after, iter_start, event_id, status, result, location,
                   observer_position, concurrent, arguments, counters, history>>

\* ------------------------------------------------------------ specifications
Trigger ==
    \/ \E o \in GenericServices \cup {"vehicle-finder"} : TriggerRemoteService(o)
    \/ \E c \in ChargingCalls : TriggerChargingSettingsUpdate(c[1], c[2], c[3])
    \/ TriggerSendPoi

\* Spec: one invocation of any operation; every status query is answered at
\* once, so that time advances in the sleeps alone
Next ==
    \/ Trigger
    \/ \E eid \in {"event", "None"} : SubmitReturns(eid)
    \/ SubmitFails
    \/ PollSleepEnds
    \/ \E response \in StatusResponses : StatusReturns(response, 0)
    \/ StatusFails
    \/ StateUpdateSleepEnds
    \/ GetVehiclesReturns
    \/ GetVehiclesFails
    \/ \E payload \in PositionPayloads : PositionReturns(payload)
    \/ PositionFails
    \/ SendPoiReturns
    \/ SendPoiFails

Spec == Init /\ [][Next]_vars

\* SpecPoll: trigger_remote_service, that is _start_remote_service and
\* _block_until_done alone, with every status query taking any time in
\* 0..MaxLatency
InitPoll == Init /\ observer_position = FALSE

NextPoll ==
    \/ TriggerRemoteService("light-flash")
    \/ SubmitReturns("event")
    \/ SubmitFails
    \/ PollSleepEnds
    \/ \E response \in StatusResponses, lat \in Latencies : StatusReturns(response, lat)
    \/ StatusFails

SpecPoll == InitPoll /\ [][NextPoll]_vars

\* SpecPollAnswered: SpecPoll where no request raises, every sleep ends and
\* every request is answered in the end (the event loop resumes a coroutine
\* whose sleep or request is over)
NextPollAnswered ==
    \/ TriggerRemoteService("light-flash")
    \/ SubmitReturns("event")
    \/ PollSleepEnds
    \/ \E response \in StatusResponses, lat \in Latencies : StatusReturns(response, lat)

SpecPollAnswered ==
    InitPoll /\ [][NextPollAnswered]_vars /\ WF_vars(NextPollAnswered)

\* ------------------------------------------------------- SpecConcurrent
\* Several trigger_* coroutines of one RemoteServices object run as tasks of
\* one event loop, called at the same time. Each has its own locals (the
\* record chains[c]); they share the clock, the account and the vehicle.
\* Requests are answered within the instant, as in Spec, in any order; the
\* clock advances when every coroutine left sleeps or has ended.
single_invocation ==
    <<pc, op, now, fail_after, iter_start, event_id, status, result, outcome,
      err_stage, arguments, counters, history>>

\* the operations the concurrent invocations draw from: one followed by
\* the state update, one by the position query; between them they make
\* every kind of network call
ConcurrentOperations == {"door-lock", "vehicle-finder"}

RequestPcs == {"submit", "poll_query", "get_vehicles", "position"}
SleepPcs == {"poll_sleep", "state_update_sleep"}

\* the call a coroutine suspended at a request pc awaits
CallOf(p) == IF p = "poll_query" THEN "status" ELSE p

\* a call is sent: client.post(...) or get_vehicles() begins
Sent(outstanding, call) == outstanding \cup {call}

\* mutant of Awaited: the call runs as a task of its own and the coroutine
\* goes on without its end
Awaited_as_task(outstanding, call) == outstanding

\* await: the coroutine goes on only when the call it awaits is over
Awaited(outstanding, call) == outstanding \ {call}

\* the kinds of call made so far, a kind repeated in a row noted once
Logged(calls, call) ==
    IF calls # <<>> /\ calls[Len(calls)] = call THEN calls ELSE Append(calls, call)

\* lines 163-164, 171-174 for chain record ch at the loop test
ChainLoopTest(ch) ==
    IF LoopCondition(clock, ch.fail_after)
    THEN [ch EXCEPT !.pc = "poll_sleep", !.wake = clock + _POLLING_CYCLE]
    ELSE [ch EXCEPT !.pc = Propagate(ch.op), !.outcome = "TimeoutError"]

\* a trigger_* coroutine is called and runs to its first await
ChainTrigger(c, o) ==
    /\ chains[c].pc = "idle"
    /\ clock = 0
    /\ chains' = [chains EXCEPT ![c] =
           [@ EXCEPT !.pc = "submit", !.op = o,
                     !.outstanding = Sent(@, "submit"),
                     !.calls = Logged(@, "submit")]]
    /\ UNCHANGED <<clock, location, observer_position, single_invocation>>

\* the submit POST of chain c answers; _block_until_done begins
ChainSubmitReturns(c) ==
    /\ chains[c].pc = "submit"
    /\ chains' = [chains EXCEPT ![c] =
           ChainLoopTest([@ EXCEPT !.outstanding = Awaited(@, "submit"),
                                   !.fail_after = clock + _POLLING_TIMEOUT])]
    /\ UNCHANGED <<clock, location, observer_position, single_invocation>>

\* the poll sleep of chain c is over; the status POST is sent
ChainPollSleepEnds(c) ==
    /\ chains[c].pc = "poll_sleep"
    /\ chains[c].wake = clock
    /\ chains' = [chains EXCEPT ![c] =
           [@ EXCEPT !.pc = "poll_query", !.wake = 0,
                     !.outstanding = Sent(@, "status"),
                     !.calls = Logged(@, "status")]]
    /\ UNCHANGED <<clock, location, observer_position, single_invocation>>

\* control of chain record ch after _block_until_done returned a status
ChainBlockReturned(ch) ==
    IF TriggersStateUpdate(ch.op)
    THEN [ch EXCEPT !.pc = "state_update_sleep", !.wake = clock + StateUpdateDelay]
    ELSE IF ch.op = "vehicle-finder" /\ PositionNeedsNetwork(observer_position)
    THEN [ch EXCEPT !.pc = "position",
                    !.outstanding = Sent(@, "position"),
                    !.calls = Logged(@, "position")]
    ELSE [ch EXCEPT !.pc = "done", !.outcome = "returned"]

\* the status POST of chain c answers
ChainStatusReturns(c, response) ==
    /\ chains[c].pc = "poll_query"
    /\ LET st == RemoteServiceStatus(response).state
           ch == [chains[c] EXCEPT !.outstanding = Awaited(@, "status")]
       IN  chains' = [chains EXCEPT ![c] =
               IF IsError(st)
               THEN [ch EXCEPT !.pc = Propagate(ch.op), !.outcome = "Exception"]
               ELSE IF ~StillWorking(st)
               THEN ChainBlockReturned(ch)
               ELSE ChainLoopTest(ch)]
    /\ location' = IF /\ chains'[c].pc = "done"
                      /\ chains'[c].outcome = "returned"
                      /\ chains[c].op = "vehicle-finder"
                   THEN UnknownPosition ELSE location
    /\ UNCHANGED <<clock, observer_position, single_invocation>>

\* the sleep of _trigger_state_update of chain c is over; get_vehicles() is
\* called
ChainStateUpdateSleepEnds(c) ==
    /\ chains[c].pc = "state_update_sleep"
    /\ chains[c].wake = clock
    /\ chains' = [chains EXCEPT ![c] =
           [@ EXCEPT !.pc = "get_vehicles", !.wake = 0,
                     !.outstanding = Sent(@, "get_vehicles"),
                     !.calls = Logged(@, "get_vehicles")]]
    /\ UNCHANGED <<clock, location, observer_position, single_invocation>>

\* get_vehicles() of chain c is done; the coroutine returns
ChainGetVehiclesReturns(c) ==
    /\ chains[c].pc = "get_vehicles"
    /\ chains' = [chains EXCEPT ![c] =
           [@ EXCEPT !.pc = "done", !.outcome = "returned",
                     !.outstanding = Awaited(@, "get_vehicles")]]
    /\ UNCHANGED <<clock, location, observer_position, single_invocation>>

\* the position POST of chain c answers; the location is set and the
\* coroutine returns
ChainPositionReturns(c, payload) ==
    /\ chains[c].pc = "position"
    /\ chains' = [chains EXCEPT ![c] =
           [@ EXCEPT !.pc = "done", !.outcome = "returned",
                     !.outstanding = Awaited(@, "position")]]
    /\ location' = payload
    /\ UNCHANGED <<clock, observer_position, single_invocation>>

\* the request chain c awaits raises
ChainRequestFails(c) ==
    /\ chains[c].pc \in RequestPcs
    /\ chains' = [chains EXCEPT ![c] =
           [@ EXCEPT !.pc = Propagate(@.op), !.outcome = "TransportError",
                     !.outstanding = Awaited(@, CallOf(chains[c].pc))]]
    /\ UNCHANGED <<clock, location, observer_position, single_invocation>>

\* time passes to the end of the next sleep: no request is in flight and
\* no sleep that is over is still to be resumed
Tick ==
    /\ \A c \in ChainIds : chains[c].pc \notin RequestPcs
    /\ \A c \in ChainIds : chains[c].pc \in SleepPcs => chains[c].wake > clock
    /\ \E c \in ChainIds :
           /\ chains[c].pc \in SleepPcs
           /\ \A d \in ChainIds : chains[d].pc \in SleepPcs => chains[c].wake <= chains[d].wake
           /\ clock' = chains[c].wake
    /\ UNCHANGED <<chains, location, observer_position, single_invocation>>

InitConcurrent == Init /\ observer_position = TRUE

NextConcurrent ==
    \/ \E c \in ChainIds, o \in ConcurrentOperations : ChainTrigger(c, o)
    \/ \E c \in ChainIds : ChainSubmitReturns(c)
    \/ \E c \in ChainIds : ChainPollSleepEnds(c)
    \/ \E c \in ChainIds, response \in StatusResponses : ChainStatusReturns(c, response)
    \/ \E c \in ChainIds : ChainStateUpdateSleepEnds(c)
    \/ \E c \in ChainIds : ChainGetVehiclesReturns(c)
    \/ \E c \in ChainIds, payload \in PositionPayloads : ChainPositionReturns(c, payload)
    \/ \E c \in ChainIds : ChainRequestFails(c)
    \/ Tick

SpecConcurrent == InitConcurrent /\ [][NextConcurrent]_vars

\* SpecValidate: the validation of trigger_charging_settings_update alone,
\* over every argument and vehicle
NextValidate ==
    /\ pc = "idle"
    /\ \E soc \in SocArguments, ac \in AcArguments, veh \in Vehicles :
           TriggerChargingSettingsUpdate(soc, ac, veh)

SpecValidate == InitPoll /\ [][NextValidate]_vars

\* ------------------------------------------------------------------ claims
PollingPcs == {"poll_sleep", "poll_query"}
PostActionPcs == {"state_update_sleep", "get_vehicles", "position", "done"}

\* C1: as soon as one status query reports ERROR, the operation fails with
\* the remote-service-failed error (the Exception of line 168) and no
\* further status query is issued after the ERROR response.
C1_ErrorFailsAtOnce ==
    error_seen =>
        /\ pc = "done"
        /\ outcome = "Exception"
        /\ status.state = "ERROR"
        /\ n_status = n_status_at_error

\* C1 witness: an ERROR response after earlier non-final ones
C1_Witness ==
    /\ error_seen
    /\ outcome = "Exception"
    /\ n_status >= 3

\* C2 as stated: with every status query reporting PENDING, the timeout
\* error is raised exactly when the time elapsed since polling began is the
\* timeout budget, never earlier and never later.
C2_TimeoutExactlyAtBudget ==
    (all_pending /\ outcome = "TimeoutError") =>
        now - (fail_after - _POLLING_TIMEOUT) = _POLLING_TIMEOUT

\* C2 as amended: with every status query reporting PENDING, polling goes
\* on while the loop test finds the elapsed time below the budget and the
\* timeout error is raised at the first loop test that finds it at or over
\* the budget: never earlier than the budget, and later than the budget by
\* less than one iteration (one sleep plus the latency of one query).
C2_TimeoutAtFirstTestPastBudget ==
    all_pending =>
        /\ pc \in PollingPcs => iter_start < fail_after
        /\ pc = "poll_sleep" => now < fail_after
        /\ (pc = "done" /\ n_status >= 1) =>
               \/ outcome = "TransportError"
               \/ /\ outcome = "TimeoutError"
                  /\ now >= fail_after
                  /\ iter_start < fail_after
                  /\ now - iter_start <= _POLLING_CYCLE + MaxLatency

\* C2 witness: a timeout after PENDING responses alone, raised later than
\* the budget
C2_Witness ==
    /\ all_pending
    /\ outcome = "TimeoutError"
    /\ now > fail_after

\* C3: if the first status query reports EXECUTED, _block_until_done
\* returns that status after exactly one sleep and one status query; no
\* second sleep or query happens.
C3_FirstExecutedReturns ==
    (n_status = 1 /\ status.state = "EXECUTED") =>
        /\ n_poll_sleep = 1
        /\ pc \in PostActionPcs
        /\ now = _POLLING_CYCLE \/ pc \in {"get_vehicles", "done"}
        /\ outcome \in {"none", "returned", "TransportError"}
        /\ outcome = "returned" => result = status

\* C3 witness: the first response was EXECUTED and the status was returned
C3_Witness ==
    /\ n_status = 1
    /\ n_poll_sleep = 1
    /\ outcome = "returned"
    /\ result.state = "EXECUTED"

\* C4: INITIATED is a non-terminal state: a status query that reports
\* INITIATED never ends polling; _block_until_done returns only on EXECUTED.
C4_InitiatedKeepsPolling ==
    status.state = "INITIATED" =>
        \/ pc \in PollingPcs
        \/ outcome \in {"TimeoutError", "TransportError"} /\ err_stage \in {"poll", "status"}

\* C5: a status response whose eventStatus is present but is no member of
\* ExecutionState ends polling and the operation returns a status for it:
\* it neither keeps polling nor fails with the remote-service-failed or the
\* timeout error.
C5_UnlistedStateIsFinal ==
    (/\ status # NoStatus
     /\ status.details.has_eventStatus
     /\ status.details.eventStatus \notin ExecutionState_members \cup {""}) =>
        /\ pc \in PostActionPcs
        /\ outcome \notin {"Exception", "TimeoutError"}
        /\ outcome = "TransportError" => err_stage \in {"get_vehicles", "position"}
        /\ outcome = "returned" => result = status

\* C5 witness: a status with an unlisted state was returned to the caller
C5_Witness ==
    /\ outcome = "returned"
    /\ result.details.has_eventStatus
    /\ result.details.eventStatus = "CANCELLED"
    /\ n_status >= 2

\* the operations C6 and C7 name
StateRefreshingOperations ==
    {"door-lock", "door-unlock", "CHARGE_NOW", "climate-now:START",
     "climate-now:STOP", "charging-settings"}

C7_NoRefreshAfterFailure ==
    (/\ op \in StateRefreshingOperations
     /\ \/ outcome \in {"Exception", "TimeoutError"}
        \/ outcome = "TransportError" /\ err_stage = "submit") =>
        /\ n_refresh = 0
        /\ pc = "done"

\* C7 witness: climate start failed on an ERROR response after a pending one
C7_Witness ==
    /\ op = "climate-now:START"
    /\ outcome = "Exception"
    /\ n_status = 2
    /\ n_refresh = 0

\* C8: send-destination never issues a status query and never sleeps; it
\* issues one POST to the point-of-interest url, and the status it returns
\* is the synthesized one, with state EXECUTED.
C8_SendPoiNeverPolls ==
    op = "send-poi" =>
        /\ n_status = 0
        /\ n_poll_sleep = 0
        /\ n_submit = 0
        /\ n_poi = 1
        /\ now = 0
        /\ pc \in {"poi_post", "done"}
        /\ pc = "done" =>
               \/ /\ outcome = "returned"
                  /\ result.state = "EXECUTED"
                  /\ result.details = [has_eventStatus |-> TRUE, eventStatus |-> "EXECUTED"]
               \/ outcome = "TransportError" /\ err_stage = "poi"

\* C8 witness: send-destination returned
C8_Witness ==
    /\ op = "send-poi"
    /\ outcome = "returned"

\* C9: locate-vehicle with no observer position still performs the submit
\* and the polling, never posts to the position url, and sets the
\* synthesized error payload (title, description) as the vehicle's remote
\* service position before it returns the polled status.
C9_FinderWithoutObserver ==
    (op = "vehicle-finder" /\ ~observer_position) =>
        /\ n_position = 0
        /\ pc # "position"
        /\ outcome = "returned" =>
               /\ n_submit = 1
               /\ n_status >= 1
               /\ result = status
               /\ location.kind = "errorDetails"
               /\ location.title = "Unknown position"
               /\ location.description =
                      "Set observer position to retrieve vehicle coordinates!"
        /\ outcome # "returned" => location = NoPayload

\* C9 witness: locate-vehicle without observer position returned
C9_Witness ==
    /\ op = "vehicle-finder"
    /\ ~observer_position
    /\ outcome = "returned"
    /\ n_status >= 2

\* C10: for every charging-settings request and every combination of
\* vehicle capability flags, a supplied integer target_soc that is < 20,
\* > 100 or not a multiple of 5 (0 and negative values included) is
\* rejected by the validation.
C10_BadTargetSocRejected ==
    (/\ op = "charging-settings"
     /\ target_soc # {}
     /\ \E v \in target_soc : v < 20 \/ v > 100 \/ v % 5 # 0) =>
        /\ outcome = "ValueError"
        /\ n_submit = 0

\* C11: for every supplied integer ac_limit (0 included) that is no member
\* of the vehicle's available limits, the validation rejects the request,
\* also when the vehicle supports the AC limit and has a charging profile
\* with a non-empty list of limits.
C11_BadAcLimitRejected ==
    (/\ op = "charging-settings"
     /\ ac_limit # {}
     /\ \E v \in ac_limit : v \notin vehicle.ac_available_limits) =>
        /\ outcome = "ValueError"
        /\ n_submit = 0

\* C12: whenever the validation rejects a charging-settings request, the
\* operation ends with that error and has made no network call: no submit,
\* no status query, no refresh; and the submit is only issued after the
\* validation has passed.
C12_RejectedBeforeAnyCall ==
    op = "charging-settings" =>
        /\ outcome = "ValueError" =>
               /\ pc = "done"
               /\ n_submit = 0
               /\ n_status = 0
               /\ n_poll_sleep = 0
               /\ n_refresh = 0
               /\ n_position = 0
               /\ n_poi = 0
               /\ now = 0
        /\ n_submit >= 1 => ValidationError(target_soc, ac_limit, vehicle) = ""
        /\ ValidationError(target_soc, ac_limit, vehicle) # "" => outcome = "ValueError"

\* C12 witness: the request with target_soc 57 was rejected
C12_Witness ==
    /\ op = "charging-settings"
    /\ target_soc = {57}
    /\ outcome = "ValueError"
    /\ n_submit = 0

\* C13: when the submit response has no eventId, the operation fails at the
\* submission: no status query is issued (none with an absent identifier)
\* and no post-action effect runs.
C13_MissingEventIdFails ==
    event_id = "None" =>
        /\ n_status = 0
        /\ n_poll_sleep = 0
        /\ n_refresh = 0
        /\ n_position = 0
        /\ location = NoPayload
        /\ outcome # "returned"

\* C14: light-flash, horn and send-destination never request a vehicle
\* state refresh and never modify the vehicle's location, whatever the
\* outcome of the command.
C14_NoEffectOperations ==
    op \in {"light-flash", "horn-blow", "send-poi"} =>
        /\ n_refresh = 0
        /\ n_position = 0
        /\ location = NoPayload
        /\ pc \notin {"state_update_sleep", "get_vehicles", "position"}

\* C14 witness: the horn command ended, with a status or with an error
C14_Witness ==
    /\ op = "horn-blow"
    /\ pc = "done"
    /\ outcome \in {"returned", "Exception", "TimeoutError"}
    /\ n_status >= 2

\* C16: every status object has a state: when the status response has no
\* eventStatus, or an empty one, the state is UNKNOWN, the response is kept
\* as the details, and the polling loop goes on as for a non-final state.
C16_MissingStatusIsUnknown ==
    /\ status # NoStatus =>
           /\ status.details = last_response
           /\ status.state \in ExecutionState_members \cup {"CANCELLED"}
    /\ (status # NoStatus
        /\ (~last_response.has_eventStatus \/ last_response.eventStatus = "")) =>
           /\ status.state = "UNKNOWN"
           /\ \/ pc \in PollingPcs
              \/ pc = "done" /\ outcome = "TimeoutError"
              \/ pc = "done" /\ outcome = "TransportError" /\ err_stage = "status"

\* C16 witness: a response without eventStatus arrived and polling goes on
C16_Witness ==
    /\ n_status >= 1
    /\ pc = "poll_sleep"
    /\ ~last_response.has_eventStatus
    /\ status.state = "UNKNOWN"
    /\ status.details = last_response

\* C17: locate-vehicle queries the position url and sets the vehicle's
\* location only after a status query reported EXECUTED; when polling ends
\* in any other way, the position url is not queried and the location is
\* left as it was.
C17_PositionOnlyAfterExecuted ==
    (op = "vehicle-finder" /\ (n_position > 0 \/ location # NoPayload)) =>
        status.state = "EXECUTED"

\* ceil(_POLLING_TIMEOUT / _POLLING_CYCLE)
MaxStatusQueries == (_POLLING_TIMEOUT + _POLLING_CYCLE - 1) \div _POLLING_CYCLE

\* C18: provided every status query is answered, _block_until_done always
\* ends, with exactly one of a returned status, the remote-service-failed
\* error or the timeout error; and whatever the server answers it issues
\* at most ceil(_POLLING_TIMEOUT / _POLLING_CYCLE) = 80 status queries.
C18_PollingEnds ==
    /\ [](n_status <= MaxStatusQueries /\ n_poll_sleep <= MaxStatusQueries)
    /\ [](pc = "done" => outcome \in {"returned", "Exception", "TimeoutError"})
    /\ (pc = "poll_sleep") ~> (pc = "done")

\* C18 witness: the timeout after the 80th status query
C18_Witness ==
    /\ pc = "done"
    /\ outcome = "TimeoutError"
    /\ n_status = 80

\* C19: whenever polling fails with the timeout error, at least one status
\* query was issued before, and the state the error carries (status.state,
\* read by the message of line 173) is the state of the most recent status
\* response and one of UNKNOWN, PENDING, DELIVERED; the error is never
\* raised with no status bound.
C19_TimeoutCarriesLastState ==
    /\ outcome # "UnboundLocalError"
    /\ outcome = "TimeoutError" =>
           /\ n_status >= 1
           /\ status # NoStatus
           /\ status.details = last_response
           /\ t_last_status = now
           /\ status.state \in {"UNKNOWN", "PENDING", "DELIVERED"}

\* C19 witness: a timeout whose last response was DELIVERED
C19_Witness ==
    /\ outcome = "TimeoutError"
    /\ status.state = "DELIVERED"
    /\ last_response.eventStatus = "DELIVERED"

\* C20: a final result of a status query is never dropped for a timeout:
\* when an iteration began before the deadline, the status of its query
\* decides the outcome (EXECUTED is returned, ERROR fails) also when the
\* response arrives at or after the deadline; the deadline is tested only
\* before a new sleep begins.
C20_LateResultDecides ==
    (n_status >= 1 /\ pc # "poll_query" /\ t_last_status >= fail_after) =>
        /\ iter_start < fail_after
        /\ pc = "done"
        /\ last_response.has_eventStatus /\ last_response.eventStatus = "EXECUTED" =>
               outcome = "returned" /\ result.state = "EXECUTED"
        /\ last_response.has_eventStatus /\ last_response.eventStatus = "ERROR" =>
               outcome = "Exception"
        /\ outcome = "TimeoutError" => status.state \in {"UNKNOWN", "PENDING", "DELIVERED"}

\* C20 witness: EXECUTED arrived after the deadline and was returned
C20_Witness ==
    /\ outcome = "returned"
    /\ result.state = "EXECUTED"
    /\ now > fail_after

\* the orders in which one invocation may make its kinds of call
AllowedCallOrders ==
    {<<"submit", "status", "get_vehicles">>, <<"submit", "status", "position">>}

IsPrefix(a, b) == Len(a) <= Len(b) /\ \A i \in 1..Len(a) : a[i] = b[i]

\* C15: within one invocation at most one network call (submit, status
\* query, position query, refresh) is outstanding at any time, and the
\* calls come in the order submit, status queries, post-action effect; this
\* holds for every invocation when several run concurrently.
C15_OneCallAtATime ==
    \A c \in ChainIds :
        LET ch == chains[c]
        IN  /\ Cardinality(ch.outstanding) <= 1
            /\ \E order \in AllowedCallOrders : IsPrefix(ch.calls, order)
            /\ ch.outstanding # {} =>
                   /\ ch.pc \in RequestPcs
                   /\ ch.outstanding = {ch.calls[Len(ch.calls)]}
            /\ ch.pc \notin RequestPcs => ch.outstanding = {}

\* C15 witness: two invocations have a call outstanding at the same time,
\* one its refresh after its status queries, the other a status query
C15_Witness ==
    \E c, d \in ChainIds :
        /\ chains[c].outstanding = {"get_vehicles"}
        /\ chains[c].calls = <<"submit", "status", "get_vehicles">>
        /\ chains[d].outstanding = {"status"}
        /\ clock >= 4 * _POLLING_CYCLE

====
